---- MODULE Spec2Model ----
(***************************************************************************)
(* Entity extraction and overlap resolution of HonorAI (src/legal_ner.py), *)
(* the chunk index of a document (src/vector_store.py), the session of    *)
(* the application (src/app.py, src/database.py) and the highlighting of   *)
(* the entities (src/utils.py).                                            *)
(*                                                                         *)
(* A span is a record [text, start, end, type]; text is a sequence of     *)
(* one-character strings, start and end are 0-based half-open offsets as   *)
(* in Python.  Python lists are sequences (index i of Python is i + 1).    *)
(***************************************************************************)
EXTENDS Integers, Sequences, FiniteSets, TLC

\* Largest number of candidate spans handed to remove_duplicate_entities.
MaxSpans == 3

\* Largest number of entities in one language-model response.
MaxLLMEntities == 2

\* max_chars of extract_legal_entities_with_llm: 10000 in the source, scaled
\* down with the documents so that the longest of them is truncated.
max_chars == 2

\* The document the resolution runs are made on (only its length matters
\* to remove_duplicate_entities).
Document == <<"a", "b", "a">>

\* The entity types the resolution runs draw from: three distinct ranks.
Types == {"GPE", "ORG", "PERSON"}

\* The type of the zero-width spans of the resolution runs.
ZeroWidthTypes == {"ORG"}

VARIABLES
    text,              \* the document given to extract_legal_entities
    pc,                \* position in the pipeline
    entities,          \* spans of the SpaCy and regex passes
    openai_entities,   \* spans of the language-model pass
    all_entities,      \* argument of remove_duplicate_entities
    sorted_entities,   \* remove_duplicate_entities: the sorted candidates
    idx,               \* remove_duplicate_entities: next candidate (1-based)
    unique_entities,   \* remove_duplicate_entities: accepted spans
    occupied_ranges,   \* remove_duplicate_entities: <<start, end, priority>>
    last,              \* branch the last loop iteration took
    result,            \* value returned by extract_legal_entities
    truncated_text,    \* the prefix of the document put into the prompt
    response,          \* outcome of the chat completion call
    html_text,         \* highlight_entities_in_text: the text being marked up
    uploaded_file,     \* app: the file held by the file uploader
    user_question,     \* app: the value of the question input
    clicked,           \* app: the button that started the script run
    run_pc,            \* app: position of the script run
    document_text,     \* st.session_state.document_text
    document_analysis, \* st.session_state.document_analysis
    session_entities,  \* st.session_state.entities
    document_embeddings, \* st.session_state.document_embeddings
    current_document_id, \* st.session_state.current_document_id
    chat_history,      \* st.session_state.chat_history
    db_documents,      \* database: the rows of table documents, by id
    db_next_id,        \* database: the next value of documents.id
    db_chat_history,   \* database: the rows of table chat_history
    context,           \* app: the context given to get_chatbot_response
    relevant_chunks,   \* perform_document_search: the chunks retrieved
    raised,            \* app: the call whose exception ended the last handler
    document_chunks    \* create_document_embeddings: the chunks of the text

\* The variables of app.py, vector_store.py and the database.
session_vars == <<uploaded_file, user_question, clicked, run_pc, document_text,
                  document_analysis, session_entities, document_embeddings,
                  current_document_id, chat_history, db_documents, db_next_id,
                  db_chat_history, context, relevant_chunks, raised,
                  document_chunks>>

\* The variables of legal_ner.py.
ner_vars == <<text, pc, entities, openai_entities, all_entities, sorted_entities,
              idx, unique_entities, occupied_ranges, last, result, truncated_text,
              response, html_text>>

vars == <<ner_vars, session_vars>>

\* The variables of the extractors, untouched by remove_duplicate_entities.
extractor_vars == <<text, entities, openai_entities, truncated_text, response>>

----------------------------------------------------------------------------
(* Python helpers *)

\* text[start:end] for 0 <= start <= end <= len(text)
Slice(t, start, end) == SubSeq(t, start + 1, end)

Min(S) == CHOOSE x \in S : \A y \in S : x <= y

\* None, and a value that is not None (an optional value is a list of at
\* most one element, so that the empty text differs from None).
None == <<>>
Some(v) == <<v>>

\* The session state of a new session (app.py, "Initialize session state"),
\* the widgets untouched and the database empty.
SessionFresh ==
    /\ uploaded_file = None
    /\ user_question = <<>>
    /\ clicked = <<"none">>
    /\ run_pc = "idle"
    /\ document_text = None
    /\ document_analysis = None
    /\ session_entities = None
    /\ document_embeddings = None
    /\ current_document_id = None
    /\ chat_history = <<>>
    /\ db_documents = <<>>
    /\ db_next_id = 1
    /\ db_chat_history = <<>>
    /\ context = None
    /\ relevant_chunks = <<>>
    /\ raised = "none"
    /\ document_chunks = <<>>

\* The lists of at most n elements of S.
SeqsUpTo(S, n) == UNION {[1..k -> S] : k \in 0..n}

\* A span of the document t.
SpanOf(t, start, end, type) ==
    [text |-> Slice(t, start, end), start |-> start, end |-> end, type |-> type]

\* The non-empty spans of the document t with a type of types.
ProperSpansOf(t, types) ==
    {SpanOf(t, r[1], r[2], ty) :
        r \in {q \in (0..Len(t)) \X (0..Len(t)) : q[1] < q[2]}, ty \in types}

\* The zero-width spans of the document t with a type of types: what
\* re.finditer gives for an empty entity text.
ZeroWidthSpansOf(t, types) ==
    {SpanOf(t, k, k, ty) : k \in 0..Len(t), ty \in types}

----------------------------------------------------------------------------
(* remove_duplicate_entities *)

type_priority ==
    [t \in {"CASE_CITATION", "STATUTE", "LAW", "LEGAL_TERM", "JUDGE", "COURT",
            "JURISDICTION", "PARTY", "PERSON", "ORG", "GPE", "DATE", "MONEY"} |->
        CASE t = "CASE_CITATION" -> 10
          [] t = "STATUTE"       -> 9
          [] t = "LAW"           -> 8
          [] t = "LEGAL_TERM"    -> 7
          [] t = "JUDGE"         -> 6
          [] t = "COURT"         -> 5
          [] t = "JURISDICTION"  -> 4
          [] t = "PARTY"         -> 3
          [] t = "PERSON"        -> 2
          [] t = "ORG"           -> 1
          [] OTHER               -> 0]

\* type_priority.get(entity_type, 0)
Priority(type) ==
    IF type \in DOMAIN type_priority THEN type_priority[type] ELSE 0

\* key=lambda x: (x["start"], -len(x["text"])), compared as Python tuples
KeyLess(a, b) ==
    \/ a.start < b.start
    \/ a.start = b.start /\ (0 - Len(a.text)) < (0 - Len(b.text))

\* sorted() is stable: e goes after every element whose key is not greater.
RECURSIVE InsertSorted(_, _)
InsertSorted(s, e) ==
    IF s = <<>> THEN <<e>>
    ELSE IF KeyLess(e, Head(s)) THEN <<e>> \o s
    ELSE <<Head(s)>> \o InsertSorted(Tail(s), e)

\* Faulty variant: the candidates are processed in input order, the sort forgotten.
SortedNot(s) == s

RECURSIVE Sorted(_)
Sorted(s) ==
    IF s = <<>> THEN <<>>
    ELSE InsertSorted(Sorted(SubSeq(s, 1, Len(s) - 1)), s[Len(s)])

\* Faulty variant: ranges that only touch count as overlapping.
OverlapClosed(start, end, occ_start, occ_end) ==
    ~(end < occ_start \/ start > occ_end)

\* not (end <= occ_start or start >= occ_end)
Overlap(start, end, occ_start, occ_end) ==
    ~(end <= occ_start \/ start >= occ_end)

\* Indices of the occupied ranges the candidate overlaps.
Overlapping(occ, entity) ==
    {i \in 1..Len(occ) : Overlap(entity.start, entity.end, occ[i][1], occ[i][2])}

\* Indices of the accepted spans the inner loop of the replacement matches.
Matching(unique, occ_start, occ_end) ==
    {j \in 1..Len(unique) : unique[j].start = occ_start /\ unique[j].end = occ_end}

\* The loop body with another test deciding the replacement.
Replaces(test, priority, occ_priority) ==
    CASE test = "never" -> FALSE
      [] test = "lower" -> priority < occ_priority
      [] test = "equal" -> priority >= occ_priority

ProcessEntityWith(unique, occ, entity, test) ==
    LET priority == Priority(entity.type)
        hits == Overlapping(occ, entity)
    IN  IF hits = {}
        THEN [unique |-> Append(unique, entity),
              occ |-> Append(occ, <<entity.start, entity.end, priority>>),
              did |-> "accept"]
        ELSE LET i == Min(hits)
                 m == Matching(unique, occ[i][1], occ[i][2])
             IN  IF Replaces(test, priority, occ[i][3])
                 THEN [unique |-> IF m = {} THEN unique
                                  ELSE [unique EXCEPT ![Min(m)] = entity],
                       occ |-> [occ EXCEPT ![i] = <<entity.start, entity.end, priority>>],
                       did |-> "replace"]
                 ELSE [unique |-> unique, occ |-> occ, did |-> "discard"]

\* Faulty variant: an overlapping candidate is always discarded.
ProcessEntityNoReplace(unique, occ, entity) ==
    ProcessEntityWith(unique, occ, entity, "never")

\* Faulty variant: the comparison of the priorities is reversed.
ProcessEntityReplaceLower(unique, occ, entity) ==
    ProcessEntityWith(unique, occ, entity, "lower")

\* Faulty variant: a candidate of equal priority replaces too.
ProcessEntityReplaceEqual(unique, occ, entity) ==
    ProcessEntityWith(unique, occ, entity, "equal")

\* One iteration of the loop over sorted_entities: the accepted list and the
\* occupied ranges after the candidate has been processed.
ProcessEntity(unique, occ, entity) ==
    LET priority == Priority(entity.type)
        hits == Overlapping(occ, entity)
    IN  IF hits = {}
        THEN [unique |-> Append(unique, entity),
              occ |-> Append(occ, <<entity.start, entity.end, priority>>),
              did |-> "accept"]
        ELSE LET i == Min(hits)
                 m == Matching(unique, occ[i][1], occ[i][2])
             IN  IF priority > occ[i][3]
                 THEN [unique |-> IF m = {} THEN unique
                                  ELSE [unique EXCEPT ![Min(m)] = entity],
                       occ |-> [occ EXCEPT ![i] = <<entity.start, entity.end, priority>>],
                       did |-> "replace"]
                 ELSE [unique |-> unique, occ |-> occ, did |-> "discard"]

\* The loop run over the candidates s from the state st.
RECURSIVE Fold(_, _)
Fold(st, s) ==
    IF s = <<>> THEN st
    ELSE Fold(ProcessEntity(st.unique, st.occ, Head(s)), Tail(s))

\* remove_duplicate_entities(entities) as a function
remove_duplicate_entities(ents) ==
    Fold([unique |-> <<>>, occ |-> <<>>, did |-> "none"], Sorted(ents)).unique

----------------------------------------------------------------------------
(* The resolution, one loop iteration per step *)

ResolveSort ==
    /\ pc = "resolve"
    /\ sorted_entities' = Sorted(all_entities)
    /\ idx' = 1
    /\ unique_entities' = <<>>
    /\ occupied_ranges' = <<>>
    /\ pc' = "loop"
    /\ last' = "none"
    /\ UNCHANGED <<session_vars, html_text, extractor_vars, all_entities, result>>

ResolveStep ==
    /\ pc = "loop"
    /\ idx <= Len(sorted_entities)
    /\ LET st == ProcessEntity(unique_entities, occupied_ranges, sorted_entities[idx])
       IN  /\ unique_entities' = st.unique
           /\ occupied_ranges' = st.occ
           /\ last' = st.did
    /\ idx' = idx + 1
    /\ UNCHANGED <<session_vars, html_text, extractor_vars, pc, all_entities, sorted_entities, result>>

ResolveReturn ==
    /\ pc = "loop"
    /\ idx > Len(sorted_entities)
    /\ result' = unique_entities
    /\ pc' = "done"
    /\ UNCHANGED <<session_vars, html_text, extractor_vars, all_entities, sorted_entities, idx,
                   unique_entities, occupied_ranges, last>>

----------------------------------------------------------------------------
(* extract_legal_entities_with_llm *)

\* No chat completion call made yet.
NoResponse == [kind |-> "none", entities |-> <<>>]

\* text[:max_chars] if len(text) > max_chars else text
Truncate(t) == IF Len(t) > max_chars THEN SubSeq(t, 1, max_chars) ELSE t

\* entity.get("text", "") and entity.get("type", "LEGAL_TERM")
EntityText(entity) == IF "text" \in DOMAIN entity THEN entity.text ELSE <<>>
EntityType(entity) == IF "type" \in DOMAIN entity THEN entity.type ELSE "LEGAL_TERM"

\* re.finditer(re.escape(p), t) from offset pos on: the start offsets of the
\* leftmost non-overlapping occurrences; an empty p matches at every offset.
RECURSIVE FindIter(_, _, _)
FindIter(p, t, pos) ==
    LET at == {k \in pos..(Len(t) - Len(p)) : Slice(t, k, k + Len(p)) = p}
    IN  IF at = {} THEN <<>>
        ELSE <<Min(at)>> \o
             FindIter(p, t, IF Len(p) = 0 THEN Min(at) + 1 ELSE Min(at) + Len(p))

\* The spans appended for one entity of the response.
EntitySpans(entity, t) ==
    LET starts == FindIter(EntityText(entity), t, 0)
    IN  [n \in 1..Len(starts) |->
            [text |-> EntityText(entity), start |-> starts[n],
             end |-> starts[n] + Len(EntityText(entity)), type |-> EntityType(entity)]]

RECURSIVE ProcessedEntities(_, _)
ProcessedEntities(ents, t) ==
    IF ents = <<>> THEN <<>>
    ELSE EntitySpans(Head(ents), t) \o ProcessedEntities(Tail(ents), t)

\* The value returned for a response that arrived: the except clauses return
\* [] for content that is no JSON and for JSON of another shape.
ParseResponse(resp, t) ==
    IF resp.kind = "ok" THEN ProcessedEntities(resp.entities, t) ELSE <<>>

----------------------------------------------------------------------------
(* extract_legal_entities *)

\* ent.label_ in ["PERSON", "ORG", "GPE", "DATE", "MONEY"]
SpacyKept == {"PERSON", "ORG", "GPE", "DATE", "MONEY"}

\* Labels the statistical tagger gives in the runs (one kept, one filtered).
NerLabels == {"ORG", "CARDINAL"}

\* Keys of legal_patterns that match in the runs.
PatternTypes == {"CASE_CITATION", "DATE"}

\* doc.ents of the tagger: at most one entity in the runs.
SpacyNER ==
    /\ pc = "spacy"
    /\ \E ents \in {<<>>} \cup {<<sp>> : sp \in ProperSpansOf(text, NerLabels)} :
           entities' = SelectSeq(ents, LAMBDA sp : sp.type \in SpacyKept)
    /\ pc' = "regex"
    /\ UNCHANGED <<session_vars, html_text, text, openai_entities, all_entities, sorted_entities, idx,
                   unique_entities, occupied_ranges, last, result, truncated_text,
                   response>>

\* re.finditer over legal_patterns: at most one match in the runs.
RegexPatterns ==
    /\ pc = "regex"
    /\ \E found \in {<<>>} \cup {<<sp>> : sp \in ProperSpansOf(text, PatternTypes)} :
           entities' = entities \o found
    /\ pc' = "llm"
    /\ UNCHANGED <<session_vars, html_text, text, openai_entities, all_entities, sorted_entities, idx,
                   unique_entities, occupied_ranges, last, result, truncated_text,
                   response>>

\* Entity texts and types a response holds in the runs.
LLMTexts == {<<>>, <<"a">>, <<"a", "b">>, <<"c">>}
LLMTypes == {"PARTY"}

LLMEntities ==
    {[text |-> tx, type |-> ty] : tx \in LLMTexts, ty \in LLMTypes}
        \cup {[type |-> ty] : ty \in LLMTypes}
        \cup {[text |-> tx] : tx \in LLMTexts \ {<<>>}}

\* openai.chat.completions.create raises: nothing catches it, neither here
\* nor in extract_legal_entities.
LLMCallRaises ==
    /\ pc = "llm"
    /\ truncated_text' = Truncate(text)
    /\ response' = [kind |-> "raises", entities |-> <<>>]
    /\ pc' = "aborted"
    /\ UNCHANGED <<session_vars, html_text, text, entities, openai_entities, all_entities, sorted_entities,
                   idx, unique_entities, occupied_ranges, last, result>>

\* The call returns and its content is processed into spans.
LLMCallReturns ==
    /\ pc = "llm"
    /\ truncated_text' = Truncate(text)
    /\ \E resp \in {[kind |-> k, entities |-> <<>>] : k \in {"not_json", "bad_shape"}}
                   \cup {[kind |-> "ok", entities |-> es] :
                            es \in SeqsUpTo(LLMEntities, MaxLLMEntities)} :
          /\ response' = resp
          /\ openai_entities' = ParseResponse(resp, text)
    /\ pc' = "combine"
    /\ UNCHANGED <<session_vars, html_text, text, entities, all_entities, sorted_entities, idx,
                   unique_entities, occupied_ranges, last, result>>

\* all_entities = entities + openai_entities
Combine ==
    /\ pc = "combine"
    /\ all_entities' = entities \o openai_entities
    /\ pc' = "resolve"
    /\ UNCHANGED <<session_vars, html_text, extractor_vars, sorted_entities, idx, unique_entities,
                   occupied_ranges, last, result>>

\* The documents of the extraction runs; the longest exceeds max_chars.
Documents == {<<>>, <<"a">>, <<"a", "b">>, <<"b", "a", "b">>}

InitExtract ==
    /\ text \in Documents
    /\ pc = "spacy"
    /\ entities = <<>>
    /\ openai_entities = <<>>
    /\ all_entities = <<>>
    /\ sorted_entities = <<>>
    /\ idx = 1
    /\ unique_entities = <<>>
    /\ occupied_ranges = <<>>
    /\ last = "none"
    /\ result = <<>>
    /\ truncated_text = <<>>
    /\ response = NoResponse
    /\ html_text = <<>>
    /\ SessionFresh

NextExtract ==
    \/ SpacyNER \/ RegexPatterns \/ LLMCallRaises \/ LLMCallReturns \/ Combine
    \/ ResolveSort \/ ResolveStep \/ ResolveReturn

SpecExtract == InitExtract /\ [][NextExtract]_vars

----------------------------------------------------------------------------
(* Inputs of the resolution runs *)

\* The candidate spans of the resolution runs: every non-empty span of the
\* document with every type, and every zero-width span with the middle rank
\* (replacing a GPE span, discarded against an ORG or PERSON span).
InputSpans ==
    ProperSpansOf(Document, Types) \cup ZeroWidthSpansOf(Document, ZeroWidthTypes)

InitResolve ==
    /\ text = Document
    /\ pc = "resolve"
    /\ entities = <<>>
    /\ openai_entities = <<>>
    /\ all_entities \in SeqsUpTo(InputSpans, MaxSpans)
    /\ sorted_entities = <<>>
    /\ idx = 1
    /\ unique_entities = <<>>
    /\ occupied_ranges = <<>>
    /\ last = "none"
    /\ result = <<>>
    /\ truncated_text = <<>>
    /\ response = NoResponse
    /\ html_text = <<>>
    /\ SessionFresh

NextResolve == ResolveSort \/ ResolveStep \/ ResolveReturn

SpecResolve == InitResolve /\ [][NextResolve]_vars

\* The types of the runs on reordered inputs: GPE and DATE share the rank 0
\* (DATE is not a key of type_priority), ORG ranks above both.
TiedTypes == {"GPE", "DATE", "ORG"}

\* The document of those runs: its three non-empty ranges hold two disjoint
\* ranges and one overlapping both.
TiedDocument == <<"a", "b">>

TiedSpans ==
    ProperSpansOf(TiedDocument, TiedTypes)
        \cup ZeroWidthSpansOf(TiedDocument, ZeroWidthTypes)

InitPermute ==
    /\ text = TiedDocument
    /\ pc = "resolve"
    /\ entities = <<>>
    /\ openai_entities = <<>>
    /\ all_entities \in SeqsUpTo(TiedSpans, MaxSpans)
    /\ sorted_entities = <<>>
    /\ idx = 1
    /\ unique_entities = <<>>
    /\ occupied_ranges = <<>>
    /\ last = "none"
    /\ result = <<>>
    /\ truncated_text = <<>>
    /\ response = NoResponse
    /\ html_text = <<>>
    /\ SessionFresh

SpecPermute == InitPermute /\ [][NextResolve]_vars

----------------------------------------------------------------------------
(* RecursiveCharacterTextSplitter.split_text as create_document_embeddings  *)
(* configures it: keep_separator and strip_whitespace at their defaults,    *)
(* length_function=len.  A text is a sequence of one-character strings.     *)

\* chunk_size=1000 and chunk_overlap=100 in the source, scaled down with the
\* documents so that a text of a few characters is split into several chunks.
chunk_size == 4
chunk_overlap == 1

\* The default separators, tried in this order; the last one, the empty
\* string, splits the text into its characters.
separators == << <<"\n", "\n">>, <<"\n">>, <<" ">>, <<>> >>

Whitespace == {" ", "\n"}

\* str.strip()
RECURSIVE LStrip(_)
LStrip(s) == IF s # <<>> /\ Head(s) \in Whitespace THEN LStrip(Tail(s)) ELSE s

RECURSIVE RStrip(_)
RStrip(s) ==
    IF s # <<>> /\ s[Len(s)] \in Whitespace THEN RStrip(SubSeq(s, 1, Len(s) - 1)) ELSE s

Strip(s) == LStrip(RStrip(s))

\* "".join(docs)
RECURSIVE Concat(_)
Concat(docs) == IF docs = <<>> THEN <<>> ELSE Head(docs) \o Concat(Tail(docs))

\* re.search(re.escape(sep), t) for a non-empty sep
Contains(t, sep) ==
    \E i \in 1..(Len(t) - Len(sep) + 1) : SubSeq(t, i, i + Len(sep) - 1) = sep

\* re.split with the separator captured, every separator joined to the piece
\* that follows it: cur is the piece being read.
RECURSIVE SplitKeep(_, _, _)
SplitKeep(t, sep, cur) ==
    IF t = <<>> THEN <<cur>>
    ELSE IF Len(sep) <= Len(t) /\ SubSeq(t, 1, Len(sep)) = sep
         THEN <<cur>> \o SplitKeep(SubSeq(t, Len(sep) + 1, Len(t)), sep, sep)
         ELSE SplitKeep(Tail(t), sep, Append(cur, Head(t)))

\* _split_text_with_regex(text, separator, keep_separator=True): the pieces
\* that are not empty.
split_text_with_regex(t, sep) ==
    IF sep = <<>>
    THEN [i \in 1..Len(t) |-> <<t[i]>>]
    ELSE SelectSeq(SplitKeep(t, sep, <<>>), LAMBDA piece : piece # <<>>)

\* _join_docs with the separator "": the stripped concatenation (the empty
\* sequence is its None).
join_docs(docs) == Strip(Concat(docs))

\* The while loop of _merge_splits: pieces are dropped from the front of
\* current_doc until no more than chunk_overlap is kept and the next piece
\* (of length len) fits.
RECURSIVE PopFront(_, _, _)
PopFront(current_doc, total, len) ==
    IF total > chunk_overlap \/ (total + len > chunk_size /\ total > 0)
    THEN PopFront(Tail(current_doc), total - Len(Head(current_doc)), len)
    ELSE [current_doc |-> current_doc, total |-> total]

\* _merge_splits(splits, "") from the state (docs, current_doc, total).
RECURSIVE merge_splits(_, _, _, _)
merge_splits(splits, docs, current_doc, total) ==
    IF splits = <<>>
    THEN IF join_docs(current_doc) = <<>> THEN docs
         ELSE Append(docs, join_docs(current_doc))
    ELSE LET d == Head(splits)
         IN  IF total + Len(d) > chunk_size /\ current_doc # <<>>
             THEN LET kept == PopFront(current_doc, total, Len(d))
                  IN  merge_splits(Tail(splits),
                                   IF join_docs(current_doc) = <<>> THEN docs
                                   ELSE Append(docs, join_docs(current_doc)),
                                   Append(kept.current_doc, d),
                                   kept.total + Len(d))
             ELSE merge_splits(Tail(splits), docs, Append(current_doc, d),
                               total + Len(d))

\* Index in seps of the separator _split_text picks: the first that is empty
\* or occurs in t.
PickSeparator(t, seps) ==
    Min({i \in DOMAIN seps : seps[i] = <<>> \/ Contains(t, seps[i])})

RECURSIVE split_text_with(_, _)
RECURSIVE SplitLoop(_, _, _, _)

\* The loop of _split_text over the pieces: good_splits are the pieces
\* shorter than chunk_size waiting to be merged, a longer piece is split
\* again with the separators left.
SplitLoop(splits, good_splits, final_chunks, new_separators) ==
    IF splits = <<>>
    THEN final_chunks \o merge_splits(good_splits, <<>>, <<>>, 0)
    ELSE IF Len(Head(splits)) < chunk_size
         THEN SplitLoop(Tail(splits), Append(good_splits, Head(splits)),
                        final_chunks, new_separators)
         ELSE SplitLoop(Tail(splits), <<>>,
                        final_chunks \o merge_splits(good_splits, <<>>, <<>>, 0)
                            \o (IF new_separators = <<>> THEN <<Head(splits)>>
                                ELSE split_text_with(Head(splits), new_separators)),
                        new_separators)

\* _split_text(text, separators)
split_text_with(t, seps) ==
    LET i == PickSeparator(t, seps)
        new_separators == IF seps[i] = <<>> THEN <<>>
                          ELSE SubSeq(seps, i + 1, Len(seps))
    IN  SplitLoop(split_text_with_regex(t, seps[i]), <<>>, <<>>, new_separators)

\* The texts of the files the user uploads in a session: a text of two
\* chunks, and a text of four chunks that is longer than three chunk sizes.
Files ==
    { <<"a", "b", " ", "c", "d">>,
      <<"a", "a", "a", "a", "a", "a", "a", "a", "a", "a", "a", "a", "a">> }

\* The chunks of those texts, split once.
FileChunks == [f \in Files |-> split_text_with(f, separators)]

\* text_splitter.split_text(document_text)
split_text(t) ==
    IF t \in Files THEN FileChunks[t] ELSE split_text_with(t, separators)

----------------------------------------------------------------------------
(* create_document_embeddings *)

\* The legal_ner variables while no extraction runs.
NerIdle ==
    /\ text = <<>>
    /\ pc = "idle"
    /\ entities = <<>>
    /\ openai_entities = <<>>
    /\ all_entities = <<>>
    /\ sorted_entities = <<>>
    /\ idx = 1
    /\ unique_entities = <<>>
    /\ occupied_ranges = <<>>
    /\ last = "none"
    /\ result = <<>>
    /\ truncated_text = <<>>
    /\ response = NoResponse
    /\ html_text = <<>>

\* Lines 26-47 on the chunks of the text.  embedded: get_embedding returns
\* for every chunk (it raises otherwise, and nothing here catches it).  With
\* no chunk, np.array([]) has the shape (0,) and embeddings_array.shape[1]
\* raises IndexError.  The result is None when the function raises, and
\* otherwise the dictionary, its FAISS index given by its number of vectors.
BuildIndex(chunks, embedded) ==
    IF chunks # <<>> /\ ~embedded THEN None
    ELSE IF chunks = <<>> THEN None
    ELSE Some([index |-> Len(chunks), chunks |-> chunks])

create_document_embeddings(t, embedded) == BuildIndex(split_text(t), embedded)

\* document_chunks = text_splitter.split_text(document_text)
SplitText ==
    /\ run_pc = "split"
    /\ document_chunks' = split_text(document_text[1])
    /\ run_pc' = "embed"
    /\ UNCHANGED <<ner_vars, uploaded_file, user_question, clicked, document_text,
                   document_analysis, session_entities, document_embeddings,
                   current_document_id, chat_history, db_documents, db_next_id,
                   db_chat_history, context, relevant_chunks, raised>>

\* The rest of create_document_embeddings: it returns the dictionary or raises.
EmbedChunks ==
    /\ run_pc = "embed"
    /\ \E embedded \in BOOLEAN :
          /\ document_embeddings' = BuildIndex(document_chunks, embedded)
          /\ run_pc' = IF BuildIndex(document_chunks, embedded) = None
                       THEN "raised" ELSE "returned"
    /\ UNCHANGED <<ner_vars, uploaded_file, user_question, clicked, document_text,
                   document_analysis, session_entities, current_document_id,
                   chat_history, db_documents, db_next_id, db_chat_history,
                   context, relevant_chunks, raised, document_chunks>>

\* Longest text given to create_document_embeddings on its own.
MaxTextLen == 6

\* The characters of those texts.
Alphabet == {"a", "b", " "}

InitChunks ==
    /\ NerIdle
    /\ uploaded_file = None
    /\ user_question = <<>>
    /\ clicked = <<"none">>
    /\ run_pc = "split"
    /\ document_text \in {Some(t) : t \in SeqsUpTo(Alphabet, MaxTextLen)}
    /\ document_analysis = None
    /\ session_entities = None
    /\ document_embeddings = None
    /\ current_document_id = None
    /\ chat_history = <<>>
    /\ db_documents = <<>>
    /\ db_next_id = 1
    /\ db_chat_history = <<>>
    /\ context = None
    /\ relevant_chunks = <<>>
    /\ raised = "none"
    /\ document_chunks = <<>>

NextChunks == SplitText \/ EmbedChunks

SpecChunks == InitChunks /\ [][NextChunks]_vars

----------------------------------------------------------------------------
(* perform_document_search *)

\* k = min(3, len(chunks)): the 3.
top_k == 3

\* max_chars of the fallback: 3000 in the source, three times chunk_size.
fallback_max_chars == 12

\* Faulty variant: the search is not clamped, every vector is returned.
NeighboursUnclamped(n, kk) ==
    {ix \in [1..n -> 1..n] : \A i, j \in 1..n : i # j => ix[i] # ix[j]}

\* The results index.search can give for k neighbours among n vectors: which
\* chunks are nearest depends on the embeddings, so every choice of k distinct
\* positions, in every order.
Neighbours(n, kk) ==
    {ix \in [1..kk -> 1..n] : \A i, j \in 1..kk : i # j => ix[i] # ix[j]}

\* "\n\n".join(relevant_chunks)
RECURSIVE JoinChunks(_)
JoinChunks(chunks) ==
    IF chunks = <<>> THEN <<>>
    ELSE IF Len(chunks) = 1 THEN chunks[1]
    ELSE chunks[1] \o <<"\n", "\n">> \o JoinChunks(Tail(chunks))

\* [chunks[idx] for idx in indices[0]]
RelevantChunks(embeddings, indices) ==
    [i \in 1..Len(indices) |-> embeddings.chunks[indices[i]]]

\* Lines 76-86, once the query is embedded and the index searched: the
\* fallback when nothing was retrieved and full_text is a non-empty string,
\* the joined chunks otherwise.
perform_document_search(embeddings, full_text, indices) ==
    IF full_text # None /\ full_text[1] # <<>> /\ RelevantChunks(embeddings, indices) = <<>>
    THEN SubSeq(full_text[1], 1, Min({fallback_max_chars, Len(full_text[1])}))
    ELSE JoinChunks(RelevantChunks(embeddings, indices))

\* Faulty variant: without an index the answer generator is given no context.
ChatContextNoFullText(embeddings, full_text, indices) ==
    IF embeddings # None
    THEN perform_document_search(embeddings[1], full_text, indices)
    ELSE <<>>

\* The second argument of get_chatbot_response in tab2: the retrieved context
\* when the session holds an index, the whole document text otherwise.
ChatContext(embeddings, full_text, indices) ==
    IF embeddings # None
    THEN perform_document_search(embeddings[1], full_text, indices)
    ELSE full_text[1]

----------------------------------------------------------------------------
(* app.py: one Streamlit session.  Every user interaction starts a script   *)
(* run, which goes through tab1, tab2 and tab3 in this order.               *)

\* Largest number of rows ever inserted into table documents.
MaxDocs == 1

\* Largest length of st.session_state.chat_history.
MaxMessages == 3

\* The question typed into the input of tab2.
Questions == {<<"q">>}

\* process_document(document_text): the analysis of that text.
process_document(t) == [summary |-> t]

\* extract_legal_entities(document_text): a list of entities is represented
\* by the text it was extracted from.  The rows save_entities stores for a
\* document (none when it raises) are part of that list and represented alike.
extract_legal_entities(t) == [entities_of |-> t]

\* The calls of the Analyze handler that can raise, in the order they are made.
AnalyzeCalls ==
    {"process_document", "extract_legal_entities", "get_embedding",
     "save_document", "save_entities"}

\* The session widgets take a new value or a button is clicked: a script run
\* starts.  passes is the number of times the run can go through tab2.
StartRun(c, question, passes) ==
    /\ run_pc = "idle"
    /\ question = <<>> \/ Len(chat_history) + 2 * passes <= MaxMessages
    /\ clicked' = c
    /\ user_question' = question
    /\ run_pc' = "tab1"
    /\ UNCHANGED <<ner_vars, document_text, document_analysis, session_entities,
                   document_embeddings, current_document_id, chat_history,
                   db_documents, db_next_id, db_chat_history, context,
                   relevant_chunks, raised, document_chunks>>

\* The user puts a file into the uploader, or another one in its place.
UploadFile ==
    \E f \in Files :
        /\ uploaded_file # Some(f)
        /\ uploaded_file' = Some(f)
        /\ StartRun(<<"none">>, user_question, 1)

\* The user takes the file out of the uploader.
RemoveFile ==
    /\ uploaded_file # None
    /\ uploaded_file' = None
    /\ StartRun(<<"none">>, user_question, 1)

\* The user changes the question; the input is there only while the session
\* has a document text.
AskQuestion ==
    /\ document_text # None
    /\ \E q \in (Questions \cup {<<>>}) \ {user_question} :
           StartRun(<<"none">>, q, 1)
    /\ UNCHANGED uploaded_file

\* The button is inside "if uploaded_file is not None".
ClickAnalyze ==
    /\ uploaded_file # None
    /\ StartRun(<<"analyze">>, user_question, 1)
    /\ UNCHANGED uploaded_file

\* tab3 shows one Load and one Delete button for every saved document.
ClickLoad ==
    /\ \E id \in DOMAIN db_documents : StartRun(<<"load", id>>, user_question, 2)
    /\ UNCHANGED uploaded_file

ClickDelete ==
    /\ \E id \in DOMAIN db_documents : StartRun(<<"delete", id>>, user_question, 2)
    /\ UNCHANGED uploaded_file

\* The Analyze handler (lines 91-151) on the text t, fail_at being the call
\* that raises ("none": no call raises).  Every assignment made before the
\* exception stays; "except Exception" only reports the error.
Analyze(t, fail_at) ==
    LET embeddings == create_document_embeddings(t, fail_at # "get_embedding")
        upto_entities == fail_at \notin {"process_document"}
        upto_embeddings == fail_at \notin {"process_document", "extract_legal_entities"}
        upto_save == upto_embeddings /\ embeddings # None
        saved == upto_save /\ fail_at # "save_document"
    IN  /\ document_analysis' =
               IF upto_entities THEN Some(process_document(t)) ELSE document_analysis
        /\ session_entities' =
               IF upto_embeddings THEN Some(extract_legal_entities(t))
               ELSE session_entities
        /\ document_embeddings' = IF upto_save THEN embeddings ELSE document_embeddings
        /\ current_document_id' = IF saved THEN Some(db_next_id) ELSE current_document_id
        /\ db_next_id' = IF saved THEN db_next_id + 1 ELSE db_next_id
        /\ db_documents' =
               IF saved
               THEN [id \in DOMAIN db_documents \cup {db_next_id} |->
                        IF id = db_next_id
                        THEN [document_text |-> t,
                              analysis |-> process_document(t),
                              entities |-> extract_legal_entities(t)]
                        ELSE db_documents[id]]
               ELSE db_documents
        /\ raised' =
               IF upto_embeddings /\ embeddings = None
               THEN IF split_text(t) = <<>> THEN "create_document_embeddings"
                    ELSE "get_embedding"
               ELSE fail_at

\* tab1 (lines 58-151).  While the uploader holds a file, every run extracts
\* its text again and assigns it to st.session_state.document_text; the
\* extraction can raise, which leaves the local document_text unbound, so
\* that the Analyze handler raises NameError at once.
Tab1 ==
    /\ run_pc = "tab1"
    /\ run_pc' = "tab2"
    /\ IF uploaded_file = None
       THEN UNCHANGED <<document_text, document_analysis, session_entities,
                        document_embeddings, current_document_id, db_documents,
                        db_next_id, raised>>
       ELSE \E extracted \in BOOLEAN :
              /\ document_text' = IF extracted THEN uploaded_file ELSE document_text
              /\ IF clicked # <<"analyze">>
                 THEN UNCHANGED <<document_analysis, session_entities,
                                  document_embeddings, current_document_id,
                                  db_documents, db_next_id, raised>>
                 ELSE IF ~extracted
                 THEN /\ raised' = "NameError"
                      /\ UNCHANGED <<document_analysis, session_entities,
                                     document_embeddings, current_document_id,
                                     db_documents, db_next_id>>
                 ELSE \E fail_at \in IF db_next_id <= MaxDocs
                                     THEN AnalyzeCalls \cup {"none"}
                                     ELSE AnalyzeCalls \ {"save_entities"} :
                          Analyze(uploaded_file[1], fail_at)
    /\ UNCHANGED <<ner_vars, uploaded_file, user_question, clicked, chat_history,
                   db_chat_history, context, relevant_chunks, document_chunks>>

\* The calls of the chat handler that can raise.  index.search is asked for
\* k = 0 neighbours only on an index of no chunk, where what it does is up to
\* the library: it returns nothing or raises.
ChatCalls(embeddings) ==
    {"get_chatbot_response", "save_chat_interaction"}
        \cup (IF embeddings # None THEN {"get_embedding"} ELSE {})
        \cup (IF embeddings # None /\ embeddings[1].chunks = <<>>
              THEN {"index.search"} ELSE {})

\* tab2 (lines 153-213): the chat.  Nothing catches an exception of
\* perform_document_search or get_chatbot_response: it ends the script run,
\* after the question has been appended to the chat history.
Tab2 ==
    /\ run_pc = "tab2"
    /\ IF document_text = None
       THEN /\ user_question' = <<>>
            /\ run_pc' = "tab3"
            /\ UNCHANGED <<chat_history, db_chat_history, context, relevant_chunks,
                           raised>>
       ELSE IF user_question = <<>>
       THEN /\ run_pc' = "tab3"
            /\ UNCHANGED <<user_question, chat_history, db_chat_history, context,
                           relevant_chunks, raised>>
       ELSE \E fail_at \in ChatCalls(document_embeddings) \cup {"none"} :
            \E indices \in IF document_embeddings = None THEN {<<>>}
                           ELSE Neighbours(Len(document_embeddings[1].chunks),
                                           Min({top_k, Len(document_embeddings[1].chunks)})) :
              /\ UNCHANGED user_question
              /\ IF fail_at \in {"get_embedding", "index.search"}
                 THEN /\ chat_history' =
                            Append(chat_history, [role |-> "user", content |-> user_question])
                      /\ raised' = "perform_document_search"
                      /\ run_pc' = "end"
                      /\ UNCHANGED <<db_chat_history, context, relevant_chunks>>
                 ELSE /\ context' =
                            Some(ChatContext(document_embeddings, document_text, indices))
                      /\ relevant_chunks' =
                            IF document_embeddings = None THEN <<>>
                            ELSE RelevantChunks(document_embeddings[1], indices)
                      /\ IF fail_at = "get_chatbot_response"
                         THEN /\ chat_history' =
                                    Append(chat_history,
                                           [role |-> "user", content |-> user_question])
                              /\ raised' = fail_at
                              /\ run_pc' = "end"
                              /\ UNCHANGED db_chat_history
                         ELSE /\ chat_history' =
                                    chat_history \o
                                    <<[role |-> "user", content |-> user_question],
                                      [role |-> "assistant", content |-> <<"answer">>]>>
                              /\ db_chat_history' =
                                    IF current_document_id # None
                                       /\ fail_at # "save_chat_interaction"
                                    THEN Append(db_chat_history,
                                                [document_id |-> current_document_id[1],
                                                 user_query |-> user_question,
                                                 assistant_response |-> <<"answer">>])
                                    ELSE db_chat_history
                              /\ run_pc' = "tab3"
                              /\ UNCHANGED raised
    /\ UNCHANGED <<ner_vars, uploaded_file, clicked, document_text, document_analysis,
                   session_entities, document_embeddings, current_document_id,
                   db_documents, db_next_id, document_chunks>>

\* The Load handler (lines 233-265) on the row of the document id.  The
\* session fields are assigned one after the other, the index last; when
\* create_document_embeddings raises, the fields assigned before stay and the
\* run ends without st.rerun().
Load(id, fail_at) ==
    LET full_doc == db_documents[id]
        embeddings == create_document_embeddings(full_doc.document_text,
                                                 fail_at # "get_embedding")
    IN  /\ document_text' = Some(full_doc.document_text)
        /\ current_document_id' = Some(id)
        /\ document_analysis' = Some(full_doc.analysis)
        /\ session_entities' = Some(full_doc.entities)
        /\ document_embeddings' = IF embeddings # None THEN embeddings
                                  ELSE document_embeddings
        /\ raised' = IF embeddings # None THEN "none"
                     ELSE IF split_text(full_doc.document_text) = <<>>
                          THEN "create_document_embeddings" ELSE "get_embedding"
        /\ run_pc' = IF embeddings # None THEN "tab1" ELSE "end"
        /\ UNCHANGED <<chat_history, db_documents, db_chat_history>>

\* The Delete handler (lines 268-281): the row and, by the CASCADE
\* constraint, its chat rows are deleted; the session is cleared when the
\* document deleted is the current one; st.rerun().
Delete(id) ==
    /\ db_documents' = [d \in DOMAIN db_documents \ {id} |-> db_documents[d]]
    /\ db_chat_history' = SelectSeq(db_chat_history, LAMBDA row : row.document_id # id)
    /\ IF current_document_id = Some(id)
       THEN /\ document_text' = None
            /\ document_analysis' = None
            /\ session_entities' = None
            /\ document_embeddings' = None
            /\ current_document_id' = None
            /\ chat_history' = <<>>
       ELSE UNCHANGED <<document_text, document_analysis, session_entities,
                        document_embeddings, current_document_id, chat_history>>
    /\ run_pc' = "tab1"
    /\ raised' = "none"

\* tab3 (lines 215-283): the saved documents.  "except Exception" ends the
\* run on any exception; st.rerun() starts another run with no button clicked.
Tab3 ==
    /\ run_pc = "tab3"
    /\ \/ /\ clicked[1] = "load"
          /\ \E fail_at \in {"list_documents", "get_document_by_id",
                             "get_embedding", "none"} :
                IF fail_at \in {"list_documents", "get_document_by_id"}
                THEN /\ raised' = fail_at
                     /\ run_pc' = "end"
                     /\ UNCHANGED <<document_text, document_analysis, session_entities,
                                    document_embeddings, current_document_id,
                                    chat_history, db_documents, db_chat_history>>
                ELSE Load(clicked[2], fail_at)
       \/ /\ clicked[1] = "delete"
          /\ \E fail_at \in {"list_documents", "delete_document", "none"} :
                IF fail_at # "none"
                THEN /\ raised' = fail_at
                     /\ run_pc' = "end"
                     /\ UNCHANGED <<document_text, document_analysis, session_entities,
                                    document_embeddings, current_document_id,
                                    chat_history, db_documents, db_chat_history>>
                ELSE Delete(clicked[2])
       \/ /\ clicked[1] \notin {"load", "delete"}
          /\ run_pc' = "end"
          /\ UNCHANGED <<document_text, document_analysis, session_entities,
                         document_embeddings, current_document_id, chat_history,
                         db_documents, db_chat_history, raised>>
    /\ clicked' = IF run_pc' = "tab1" THEN <<"none">> ELSE clicked
    /\ context' = IF run_pc' = "tab1" THEN None ELSE context
    /\ relevant_chunks' = IF run_pc' = "tab1" THEN <<>> ELSE relevant_chunks
    /\ UNCHANGED <<ner_vars, uploaded_file, user_question, db_next_id, document_chunks>>

\* The script run is over: its local variables are gone, the session state
\* and the widgets stay.
EndRun ==
    /\ run_pc = "end"
    /\ run_pc' = "idle"
    /\ clicked' = <<"none">>
    /\ context' = None
    /\ relevant_chunks' = <<>>
    /\ raised' = "none"
    /\ UNCHANGED <<ner_vars, uploaded_file, user_question, document_text,
                   document_analysis, session_entities, document_embeddings,
                   current_document_id, chat_history, db_documents, db_next_id,
                   db_chat_history, document_chunks>>

InitSession == NerIdle /\ SessionFresh

NextSession ==
    \/ UploadFile \/ RemoveFile \/ AskQuestion
    \/ ClickAnalyze \/ ClickLoad \/ ClickDelete
    \/ Tab1 \/ Tab2 \/ Tab3 \/ EndRun

SpecSession == InitSession /\ [][NextSession]_vars

----------------------------------------------------------------------------
(* highlight_entities_in_text (src/utils.py)                               *)
(*                                                                         *)
(* The markup is a sequence whose elements are the characters of the text  *)
(* and, each as one element, the tags the function inserts.  The entities  *)
(* of the runs do not overlap, so that every slice the loop takes is cut   *)
(* at an offset in front of the tags inserted before, where the length of  *)
(* a tag does not matter.                                                  *)

\* Longest text given to highlight_entities_in_text.
MaxHighlightLen == 3

\* Largest number of entities given to highlight_entities_in_text.
MaxHighlighted == 2

\* The characters of the texts: a letter, two characters html.escape
\* replaces, and the newline.
HighlightAlphabet == {"a", "&", "<", "\n"}

\* The entity types of the runs: one with a colour of its own in
\* entity_colors and one that gets default_color.
HighlightTypes == {"PERSON", "EVENT"}

\* html.escape(s) (quote=True) for one character.
escape_char(c) ==
    CASE c = "&" -> <<"&", "a", "m", "p", ";">>
      [] c = "<" -> <<"&", "l", "t", ";">>
      [] c = ">" -> <<"&", "g", "t", ";">>
      [] c = "\"" -> <<"&", "q", "u", "o", "t", ";">>
      [] c = "'" -> <<"&", "#", "x", "2", "7", ";">>
      [] OTHER -> <<c>>

\* html.escape(s)
RECURSIVE html_escape(_)
html_escape(t) ==
    IF t = <<>> THEN <<>> ELSE escape_char(Head(t)) \o html_escape(Tail(t))

\* The opening tag of highlighted_span (line 48) for an entity type, with
\* the colour entity_colors.get(entity_type, default_color).
span_open(entity_type) ==
    CASE entity_type = "PERSON" ->
             "<span style=\"background-color: #FFC107; padding: 2px; border-radius: 3px;\" title=\"PERSON\">"
      [] entity_type = "EVENT" ->
             "<span style=\"background-color: #9E9E9E; padding: 2px; border-radius: 3px;\" title=\"EVENT\">"

span_close == "</span>"

\* highlighted_span of line 48
highlighted_span(t, entity) ==
    <<span_open(entity.type)>> \o html_escape(Slice(t, entity.start, entity.end))
        \o <<span_close>>

\* sorted(entities, key=lambda x: x["start"], reverse=True): stable, entities
\* of equal start keep their order.
RECURSIVE InsertByStartReverse(_, _)
InsertByStartReverse(s, e) ==
    IF s = <<>> THEN <<e>>
    ELSE IF Head(s).start >= e.start
         THEN <<Head(s)>> \o InsertByStartReverse(Tail(s), e)
         ELSE <<e>> \o s

RECURSIVE SortedByStartReverse(_)
SortedByStartReverse(s) ==
    IF s = <<>> THEN <<>>
    ELSE InsertByStartReverse(SortedByStartReverse(SubSeq(s, 1, Len(s) - 1)),
                              s[Len(s)])

\* html_text.replace('\n', '<br>')
RECURSIVE newlines_to_br(_)
newlines_to_br(h) ==
    IF h = <<>> THEN <<>>
    ELSE (IF Head(h) = "\n" THEN <<"<", "b", "r", ">">> ELSE <<Head(h)>>)
             \o newlines_to_br(Tail(h))

div_open == "<div style=\"font-family: monospace; white-space: pre-wrap; line-height: 1.5;\">"

div_close == "</div>"

\* The value returned (line 57).
wrap_in_div(h) == <<div_open>> \o h \o <<div_close>>

\* Two entities share no character.
Disjoint(a, b) == a.end <= b.start \/ b.end <= a.start

\* Lines 29-35: the entities sorted by start, last first; the text escaped.
HighlightSort ==
    /\ pc = "highlight"
    /\ sorted_entities' = SortedByStartReverse(entities)
    /\ html_text' = html_escape(text)
    /\ idx' = 1
    /\ pc' = "insert"
    /\ UNCHANGED <<session_vars, text, entities, openai_entities, all_entities,
                   unique_entities, occupied_ranges, last, result, truncated_text,
                   response>>

\* Lines 38-51: one iteration of the loop.  start and end, offsets into the
\* text, are used as offsets into html_text.
HighlightStep ==
    /\ pc = "insert"
    /\ idx <= Len(sorted_entities)
    /\ LET entity == sorted_entities[idx]
           start == Min({entity.start, Len(html_text)})
           end == Min({entity.end, Len(html_text)})
       IN  html_text' = Slice(html_text, 0, start) \o highlighted_span(text, entity)
                            \o Slice(html_text, end, Len(html_text))
    /\ idx' = idx + 1
    /\ UNCHANGED <<session_vars, text, pc, entities, openai_entities, all_entities,
                   sorted_entities, unique_entities, occupied_ranges, last, result,
                   truncated_text, response>>

\* Lines 53-57: the newlines become <br>, the markup is wrapped in a div and
\* returned.
HighlightReturn ==
    /\ pc = "insert"
    /\ idx > Len(sorted_entities)
    /\ result' = wrap_in_div(newlines_to_br(html_text))
    /\ pc' = "highlighted"
    /\ UNCHANGED <<session_vars, text, entities, openai_entities, all_entities,
                   sorted_entities, idx, unique_entities, occupied_ranges, last,
                   truncated_text, response, html_text>>

\* A call of highlight_entities_in_text: a text and a list of entities with
\* start < end and offsets into the text, no two of them overlapping.
InitHighlight ==
    /\ text \in SeqsUpTo(HighlightAlphabet, MaxHighlightLen)
    /\ pc = "highlight"
    /\ entities \in {es \in SeqsUpTo(ProperSpansOf(text, HighlightTypes), MaxHighlighted) :
                        \A i, j \in DOMAIN es : i # j => Disjoint(es[i], es[j])}
    /\ openai_entities = <<>>
    /\ all_entities = <<>>
    /\ sorted_entities = <<>>
    /\ idx = 1
    /\ unique_entities = <<>>
    /\ occupied_ranges = <<>>
    /\ last = "none"
    /\ result = <<>>
    /\ truncated_text = <<>>
    /\ response = NoResponse
    /\ html_text = <<>>
    /\ SessionFresh

NextHighlight == HighlightSort \/ HighlightStep \/ HighlightReturn

SpecHighlight == InitHighlight /\ [][NextHighlight]_vars

----------------------------------------------------------------------------
(* Vocabulary of the properties *)

\* Two spans overlap: NOT (end1 <= start2 OR start1 >= end2).
Intersects(a, b) == ~(a.end <= b.start \/ a.start >= b.end)

Proper(sp) == sp.start < sp.end

AllProper(s) == \A i \in DOMAIN s : Proper(s[i])

PairwiseDisjoint(s) ==
    \A i, j \in DOMAIN s : i # j => ~Intersects(s[i], s[j])

Occurs(s, x) == \E k \in DOMAIN s : s[k] = x

Count(s, x) == Cardinality({k \in DOMAIN s : s[k] = x})

\* s and t hold the same spans the same number of times.
SameSpans(s, t) ==
    /\ Len(s) = Len(t)
    /\ \A k \in DOMAIN s : Count(s, s[k]) = Count(t, s[k])

Returned == pc = "done"

----------------------------------------------------------------------------
(* Properties of remove_duplicate_entities *)

\* C1: for an input whose spans all have start < end, no two distinct entries
\* of the returned list overlap.
C1_NoOverlap ==
    (Returned /\ AllProper(all_entities)) => PairwiseDisjoint(result)

\* C1 witness: three proper spans given out of order, some of them overlapping,
\* resolved into two accepted spans.
C1_Witness ==
    /\ Returned /\ AllProper(all_entities) /\ Len(all_entities) = 3
    /\ all_entities[1].start > all_entities[2].start
    /\ ~PairwiseDisjoint(all_entities)
    /\ Len(result) = 2

\* C2: two overlapping spans of different priorities resolve to exactly the
\* one of higher priority, whatever their order, starts and lengths.
C2_TwoSpans ==
    (/\ Returned
     /\ Len(all_entities) = 2
     /\ Intersects(all_entities[1], all_entities[2])
     /\ Priority(all_entities[1].type) # Priority(all_entities[2].type))
    => result = <<IF Priority(all_entities[1].type) > Priority(all_entities[2].type)
                  THEN all_entities[1] ELSE all_entities[2]>>

\* C2 witness: ORG over (0,2) first, PERSON over (0,1) second; PERSON alone
\* is returned.
C2_Witness ==
    /\ Returned
    /\ all_entities = <<SpanOf(Document, 0, 2, "ORG"), SpanOf(Document, 0, 1, "PERSON")>>
    /\ result = <<SpanOf(Document, 0, 1, "PERSON")>>

\* C3 as stated: whenever the input holds overlapping X and Y with
\* priority(X) > priority(Y), Y is not returned (stated for inputs whose
\* spans all have start < end).
C3_LowerNeverReturned ==
    (Returned /\ AllProper(all_entities)) =>
        \A i, j \in DOMAIN all_entities :
            (/\ Intersects(all_entities[i], all_entities[j])
             /\ Priority(all_entities[i].type) > Priority(all_entities[j].type))
            => ~Occurs(result, all_entities[j])

\* No other span of the input overlapping the i-th has its priority or more.
Unchallenged(i) ==
    \A k \in DOMAIN all_entities \ {i} :
        Intersects(all_entities[k], all_entities[i])
        => Priority(all_entities[k].type) < Priority(all_entities[i].type)

\* C3 amended: Y is not returned when X is overlapped by no other input span
\* of equal or higher priority.
C3_LowerNotReturnedIfUnchallenged ==
    Returned =>
        \A i, j \in DOMAIN all_entities :
            (/\ Intersects(all_entities[i], all_entities[j])
             /\ Priority(all_entities[i].type) > Priority(all_entities[j].type)
             /\ Unchallenged(i))
            => ~Occurs(result, all_entities[j])

\* C3 witness: X comes after the two lower spans it overlaps in the sort
\* order and is the only span returned.
C3_Witness ==
    /\ Returned /\ Len(all_entities) = 3
    /\ Unchallenged(1)
    /\ Intersects(all_entities[1], all_entities[2])
    /\ Intersects(all_entities[1], all_entities[3])
    /\ ~Intersects(all_entities[2], all_entities[3])
    /\ all_entities[2].start < all_entities[1].start
    /\ result = <<all_entities[1]>>

\* C4: pairwise non-overlapping spans are all returned, unchanged, none added.
C4_Passthrough ==
    (Returned /\ PairwiseDisjoint(all_entities)) => SameSpans(result, all_entities)

\* C4 witness: three proper spans at (2,3), (0,1), (1,2), all returned.
C4_Witness ==
    /\ Returned /\ Len(all_entities) = 3 /\ AllProper(all_entities)
    /\ PairwiseDisjoint(all_entities)
    /\ all_entities[1].start = 2 /\ all_entities[2].start = 0
    /\ all_entities[3].start = 1
    /\ Len(result) = 3

\* C5: resolving the returned list again gives the same list.
C5_Idempotent ==
    Returned => remove_duplicate_entities(result) = result

\* C6: a span given several times leaves at most one entry with its range.
C6_DuplicatesCollapsed ==
    Returned =>
        \A i, j \in DOMAIN all_entities :
            (i # j /\ all_entities[i] = all_entities[j])
            => Cardinality({k \in DOMAIN result :
                               /\ result[k].start = all_entities[i].start
                               /\ result[k].end = all_entities[i].end}) <= 1

\* C7: a zero-width span is always returned, and the other spans are resolved
\* as if it had not been given.
C7_ZeroWidthAccepted ==
    Returned =>
        /\ \A i \in DOMAIN all_entities :
               ~Proper(all_entities[i]) => Occurs(result, all_entities[i])
        /\ SameSpans(SelectSeq(result, Proper),
                     remove_duplicate_entities(SelectSeq(all_entities, Proper)))

\* C8: a loop iteration whose candidate overlaps an occupied range replaces
\* that range and the accepted span at the same index when the candidate's
\* priority is strictly greater, and otherwise changes neither list, keeping
\* the accepted span, which is not later in the sort order.
C8_ConflictStep ==
    [][(pc = "loop" /\ idx' = idx + 1) =>
        LET entity == sorted_entities[idx]
            hits == {i \in DOMAIN occupied_ranges :
                        ~(entity.end <= occupied_ranges[i][1]
                          \/ entity.start >= occupied_ranges[i][2])}
        IN  hits # {} =>
              LET i == Min(hits) IN
              /\ Len(unique_entities') = Len(unique_entities)
              /\ Len(occupied_ranges') = Len(occupied_ranges)
              /\ IF Priority(entity.type) > occupied_ranges[i][3]
                 THEN /\ unique_entities' = [unique_entities EXCEPT ![i] = entity]
                      /\ occupied_ranges' =
                            [occupied_ranges EXCEPT
                                ![i] = <<entity.start, entity.end, Priority(entity.type)>>]
                 ELSE /\ unique_entities' = unique_entities
                      /\ occupied_ranges' = occupied_ranges
                      /\ ~KeyLess(entity, unique_entities[i])]_vars

\* C8 witness: the replacement was made at the first of two indices.
C8_Witness ==
    /\ pc = "loop" /\ last = "replace"
    /\ Len(unique_entities) = 2
    /\ unique_entities[1] = sorted_entities[idx - 1]

----------------------------------------------------------------------------
(* Properties of extract_legal_entities *)

\* The language-model extractor failed: the call raised, or its content was
\* no JSON, or JSON of another shape.
LLMFailed == response.kind \in {"raises", "not_json", "bad_shape"}

\* C9: when the language-model extractor fails, extract_legal_entities still
\* returns, and returns the resolution of the spans of the other sources.
C9_ExtractorFailureTolerated ==
    LLMFailed =>
        /\ pc # "aborted"
        /\ Returned => result = remove_duplicate_entities(entities)

\* C10: every span handed to remove_duplicate_entities satisfies
\* 0 <= start < end <= len(document) and text = document[start:end].
C10_SpansWithinDocument ==
    pc = "resolve" =>
        \A i \in DOMAIN all_entities :
            /\ 0 <= all_entities[i].start
            /\ all_entities[i].start < all_entities[i].end
            /\ all_entities[i].end <= Len(text)
            /\ all_entities[i].text =
                  Slice(text, all_entities[i].start, all_entities[i].end)

----------------------------------------------------------------------------
(* Properties of the loop of remove_duplicate_entities *)

\* C18: for an input whose spans all have start < end, the candidate about
\* to be processed overlaps at most one occupied range (so the first
\* overlapping range is the only one), and the occupied ranges never overlap
\* one another, a replacement included.
C18_SingleOverlap ==
    (pc = "loop" /\ AllProper(all_entities)) =>
        /\ idx <= Len(sorted_entities) =>
               Cardinality(Overlapping(occupied_ranges, sorted_entities[idx])) <= 1
        /\ \A i, j \in DOMAIN occupied_ranges :
               i # j => ~Overlap(occupied_ranges[i][1], occupied_ranges[i][2],
                                 occupied_ranges[j][1], occupied_ranges[j][2])

\* C18 witness: a replacement has just been made while two ranges are
\* occupied, and the range put in place differs from the one it replaced.
C18_Witness ==
    /\ pc = "loop" /\ AllProper(all_entities) /\ last = "replace"
    /\ Len(occupied_ranges) = 2
    /\ \E i \in DOMAIN occupied_ranges :
           /\ occupied_ranges[i][1] = sorted_entities[idx - 1].start
           /\ occupied_ranges[i][2] = sorted_entities[idx - 1].end
           /\ \E k \in 1..(idx - 2) :
                  /\ sorted_entities[k].start < sorted_entities[idx - 1].start
                  /\ Intersects(sorted_entities[k], sorted_entities[idx - 1])

\* C19: the returned list is ordered by start, ascending.
C19_OrderedByStart ==
    Returned =>
        \A k \in 1..(Len(result) - 1) : result[k].start <= result[k + 1].start

\* The reorderings of the list s.
PermSeqs(s) ==
    {[i \in 1..Len(s) |-> s[p[i]]] : p \in Permutations(1..Len(s))}

\* The list s with the type of each span replaced by its priority.
Ranked(s) ==
    [k \in DOMAIN s |->
        <<s[k].start, s[k].end, s[k].text, Priority(s[k].type)>>]

----------------------------------------------------------------------------
(* Properties of create_document_embeddings *)

\* The chunk c lies in the text t at the offset o (0-based).
LiesAt(t, c, o) == o + Len(c) <= Len(t) /\ SubSeq(t, o + 1, o + Len(c)) = c

\* The character at the position pos (1-based) of t is inside an occurrence
\* of one of the chunks.
CoveredAt(t, chunks, pos) ==
    \E i \in DOMAIN chunks, o \in 0..Len(t) :
        LiesAt(t, chunks[i], o) /\ o < pos /\ pos <= o + Len(chunks[i])

\* The text has been split.
Chunked == run_pc \in {"embed", "returned", "raised"}

\* C16: for the empty text create_document_embeddings returns an index of no
\* chunk and does not raise.
C16_EmptyTextEmptyIndex ==
    (document_text = Some(<<>>) /\ run_pc \in {"returned", "raised"}) =>
        /\ run_pc = "returned"
        /\ document_embeddings # None
        /\ document_embeddings[1].chunks = <<>>

\* C17: every character of the document is inside one of the chunks.
C17_ChunksCoverDocument ==
    Chunked =>
        \A pos \in 1..Len(document_text[1]) :
            CoveredAt(document_text[1], document_chunks, pos)

----------------------------------------------------------------------------
(* Properties of the session (app.py) and of perform_document_search *)

\* text[:n]
Prefix(t, n) == SubSeq(t, 1, Min({n, Len(t)}))

\* The chat handler has just given a context to get_chatbot_response.
Answered == run_pc = "tab3" /\ context # None

\* It got that context from perform_document_search.
Retrieved == Answered /\ document_embeddings # None

\* The index of the session was built from the text t.
IndexOf(t) ==
    document_embeddings # None /\ document_embeddings[1].chunks = split_text(t)

\* C11: whenever a query is answered by retrieval, the index searched was
\* built from the text the session holds as document_text.
C11_IndexOfActiveDocument ==
    Retrieved => IndexOf(document_text[1])

\* The analysis, the entities and the index of the session are those of its
\* document text, or absent; with no document text all three are absent.
OneDocument ==
    IF document_text = None
    THEN document_analysis = None /\ session_entities = None
         /\ document_embeddings = None
    ELSE /\ document_analysis \in {None, Some(process_document(document_text[1]))}
         /\ session_entities \in {None, Some(extract_legal_entities(document_text[1]))}
         /\ document_embeddings = None \/ IndexOf(document_text[1])

\* C12: after every run of the Analyze handler and of the Load handler,
\* completed or failed, the session state is that of one document.
C12_ReplacedAtomically ==
    [][(\/ run_pc = "tab1" /\ clicked = <<"analyze">> /\ uploaded_file # None
        \/ run_pc = "tab3" /\ clicked[1] = "load") => OneDocument']_vars

C15_FailedIndexFallsBack ==
    (Answered /\ clicked = <<"analyze">> /\ raised = "get_embedding") =>
        /\ ~IndexOf(document_text[1])
        /\ context[1] = Prefix(document_text[1], fallback_max_chars)
        /\ relevant_chunks = <<>>

----------------------------------------------------------------------------
(* Spans remove_duplicate_entities does not return *)

\* The input span at the index i is not in the returned list.
Absent(i) == ~Occurs(result, all_entities[i])

\* C21 as stated: every input span that is not returned overlaps a span that
\* is returned.
C21_AbsentOverlapsReturned ==
    Returned =>
        \A i \in DOMAIN all_entities :
            Absent(i) => \E k \in DOMAIN result :
                             Intersects(all_entities[i], result[k])

\* C21 amended: every input span that is not returned overlaps another input
\* span whose priority is at least its own (the one it was discarded against
\* or replaced by), which need not be returned itself.
C21_AbsentOverlapsRival ==
    Returned =>
        \A i \in DOMAIN all_entities :
            Absent(i) => \E j \in DOMAIN all_entities :
                             /\ j # i
                             /\ Intersects(all_entities[i], all_entities[j])
                             /\ Priority(all_entities[j].type)
                                    >= Priority(all_entities[i].type)

\* C21 witness: of three proper spans only one is returned, and one of the
\* other two does not overlap it: it was discarded against, or replaced by,
\* a span that was replaced later.
C21_Witness ==
    /\ Returned /\ AllProper(all_entities)
    /\ Len(all_entities) = 3 /\ Len(result) = 1
    /\ \E i \in DOMAIN all_entities :
           Absent(i) /\ ~Intersects(all_entities[i], result[1])

----------------------------------------------------------------------------
(* The document a chat interaction is saved under *)

\* tab2 has answered a question and called save_chat_interaction.
SaveCalled == Answered /\ current_document_id # None

\* C22: when save_chat_interaction is called, the row of the documents table
\* with the id current_document_id holds the text the session holds as
\* document_text.
C22_SavedUnderActiveDocument ==
    SaveCalled =>
        /\ current_document_id[1] \in DOMAIN db_documents
        /\ db_documents[current_document_id[1]].document_text = document_text[1]

----------------------------------------------------------------------------
(* Properties of highlight_entities_in_text *)

SpanTags == {span_open(ty) : ty \in HighlightTypes} \cup {span_close}

\* The markup without the span tags.
RemoveSpanTags(h) == SelectSeq(h, LAMBDA x : x \notin SpanTags)

\* The markup h holds, between a span tag of the entity's type and the
\* closing tag, the escaped characters text[start:end] (newlines as <br>).
Wrapped(h, t, entity) ==
    LET span == newlines_to_br(highlighted_span(t, entity))
    IN  \E o \in 0..(Len(h) - Len(span)) : SubSeq(h, o + 1, o + Len(span)) = span

Highlighted == pc = "highlighted"

\* C23: every entity's characters text[start:end] are wrapped, and the
\* returned markup without the span tags is the escaped text (its newlines
\* as <br>, inside the div).
C23_TagsRemovedGiveEscapedText ==
    Highlighted =>
        /\ \A i \in DOMAIN entities : Wrapped(result, text, entities[i])
        /\ RemoveSpanTags(result) = wrap_in_div(newlines_to_br(html_escape(text)))

====
